---- MODULE Spec2Model ----
(***************************************************************************)
(* Model of "aKaReZa 61 - Embedded_C - Part F/src/main.c": a register      *)
(* overlay (GPIO_pinType / U_type / GPIO_Type) placed on the memory-mapped *)
(* ports GPIOB (0x23) and GPIOD (0x29), and main(), which sets two         *)
(* direction registers and then toggles GPIOB->PORT forever.               *)
(*                                                                         *)
(* Target: avr-gcc (the file includes <util/delay.h>).  Bit-fields are     *)
(* allocated from the least significant bit, sizeof(U_type) = 1 and        *)
(* GPIO_Type has no padding.  The source gives the addressed bytes no      *)
(* behaviour of their own, so data memory is plain storage: a byte holds   *)
(* what was last stored to it.  _delay_ms comes from avr-libc; it is       *)
(* modelled as a busy-wait that lasts the number of milliseconds asked.    *)
(***************************************************************************)
EXTENDS Integers, Sequences, FiniteSets, TLC

VARIABLES
    mem,      \* data memory: address -> byte (the I/O registers 0x23..0x2B)
    pc,       \* position in main(), or the phase of an overlay access
    left,     \* milliseconds the running _delay_ms call still has to wait
    time,     \* observer clock: milliseconds elapsed since main() started
    prior,    \* history: the memory as it was before the first statement
    wlog,     \* history: the most recent stores, oldest first
    dropped,  \* history: TRUE once wlog has forgotten its oldest stores
    op,       \* overlay access under examination
    rd        \* what that access read back through both views

vars == <<mem, pc, left, time, prior, wlog, dropped, op, rd>>

----------------------------------------------------------------------------
(* Bounds of the model *)

\* the observer clock stops counting here (the program keeps running)
MaxTime == 2600
\* number of stores the history remembers
MaxLog == 4

----------------------------------------------------------------------------
(* uint8_t and bitwise arithmetic *)

ByteRange == 256
Byte == 0 .. (ByteRange - 1)
BitIndex == 0 .. 7
Pow2(i) == 2 ^ i

RECURSIVE BitAnd(_, _)
\* x & y
BitAnd(x, y) ==
    IF x = 0 \/ y = 0 THEN 0
    ELSE (x % 2) * (y % 2) + 2 * BitAnd(x \div 2, y \div 2)

RECURSIVE BitOr(_, _)
\* x | y
BitOr(x, y) ==
    IF x = 0 THEN y
    ELSE IF y = 0 THEN x
    ELSE (IF (x % 2) + (y % 2) > 0 THEN 1 ELSE 0) + 2 * BitOr(x \div 2, y \div 2)

\* ~x on 8 bits
BitNot(x) == (ByteRange - 1) - x
\* conversion of an int to uint8_t
ToUint8(v) == v % ByteRange

----------------------------------------------------------------------------
(* The overlay: GPIO_pinType, U_type, GPIO_Type *)

\* width of each PINi bit-field
BitFieldWidth == 1
\* variant: first declared member highest
BitPosMsbFirst(i) == (7 - i) * BitFieldWidth
\* position of member PINi inside the byte: first declared member lowest
BitPos(i) == i * BitFieldWidth

\* U_type.Reg read
ReadReg(byte) == byte
\* variant: the stored value loses its top bit
WriteRegTrunc(byte, v) == v % (ByteRange \div 2)
\* U_type.Reg = v
WriteReg(byte, v) == ToUint8(v)
\* U_type.Bit.PINi read
ReadBit(byte, i) == BitAnd(byte \div Pow2(BitPos(i)), Pow2(BitFieldWidth) - 1)
\* variant: the store replaces the whole byte by the shifted bit
WriteBitClobber(byte, i, b) == (b % Pow2(BitFieldWidth)) * Pow2(BitPos(i))
\* variant: the store only ORs the bit in and never clears it
WriteBitSetOnly(byte, i, b) == BitOr(byte, (b % Pow2(BitFieldWidth)) * Pow2(BitPos(i)))
\* U_type.Bit.PINi = b : read-modify-write of the containing byte
WriteBit(byte, i, b) ==
    BitOr(BitAnd(byte, BitNot(Pow2(BitPos(i)))),
          (b % Pow2(BitFieldWidth)) * Pow2(BitPos(i)))

SizeofU_type == 1
\* members of GPIO_Type in declaration order
GPIO_Type == <<"PIN", "DDR", "PORT">>
OffsetOf(f) == (CHOOSE k \in 1..Len(GPIO_Type) : GPIO_Type[k] = f) * SizeofU_type - SizeofU_type
SizeofGPIO_Type == Len(GPIO_Type) * SizeofU_type

GPIOB == 35      \* 0x23
\* variant: the second block placed inside the first
GPIODOverlap == GPIOB + SizeofU_type
GPIOD == 41      \* 0x29
Ports == {GPIOB, GPIOD}
Members == {GPIO_Type[k] : k \in 1..Len(GPIO_Type)}

\* &port->f
RegAddr(port, f) == port + OffsetOf(f)
\* the addresses of the modelled data memory
Addr == GPIOB .. (GPIOD + SizeofGPIO_Type - 1)
RegAddrs == {RegAddr(p, f) : p \in Ports, f \in Members}

\* port->f.Reg = v
StoreReg(m, port, f, v) ==
    [m EXCEPT ![RegAddr(port, f)] = WriteReg(@, v)]
\* port->f.Bit.PINi = b
StoreBit(m, port, f, i, b) ==
    [m EXCEPT ![RegAddr(port, f)] = WriteBit(@, i, b)]

----------------------------------------------------------------------------
(* main() *)

DdrPattern == 170    \* 0xAA
\* variant: every pin driven high
HighValueAll == ByteRange - 1
HighValue == 170     \* 0xAA
\* variant: the second store repeats the first
LowValueStuck == HighValue
LowValue == 0        \* 0x00
DelayHighMs == 1000
\* variant: the second wait is half the first
DelayLowShort == DelayHighMs \div 2
DelayLowMs == 1000

\* history of stores: keep the MaxLog most recent
Logged(a, v) ==
    IF Len(wlog) < MaxLog THEN Append(wlog, <<a, v>>)
    ELSE Append(Tail(wlog), <<a, v>>)
LogStore(a, v) ==
    /\ wlog' = Logged(a, v)
    /\ dropped' = (dropped \/ Len(wlog) >= MaxLog)

\* contents of the other registers before an access or before main() runs:
\* all clear (the state after reset) or all set
PriorFill == {0, 255}
\* a few register contents, where the whole range is not needed
PriorSample == {0, 90, 254, 255}

\* state before main() runs: GPIOD->DDR holds one of the values in D, every
\* other register one of the values in F
Start(D, F) ==
    /\ \E d \in D, fill \in F :
         mem = [a \in Addr |-> IF a = RegAddr(GPIOD, "DDR") THEN d ELSE fill]
    /\ prior = mem
    /\ pc = "L35"
    /\ left = 0
    /\ time = 0
    /\ wlog = <<>>
    /\ dropped = FALSE
    /\ op = [kind |-> "none"]
    /\ rd = [kind |-> "none"]

\* every content of GPIOD->DDR with the other registers clear, and a few
\* contents of it with the other registers clear or set
Init == Start(Byte, {0}) \/ Start(PriorSample, PriorFill)

\* line 35: GPIOB->DDR.Reg = 0xAA;
SetDDRB ==
    /\ pc = "L35"
    /\ mem' = StoreReg(mem, GPIOB, "DDR", DdrPattern)
    /\ LogStore(RegAddr(GPIOB, "DDR"), mem'[RegAddr(GPIOB, "DDR")])
    /\ pc' = "L36"
    /\ UNCHANGED <<left, time, prior, op, rd>>

\* line 36: GPIOD->DDR.Bit.PIN0 = 1;
SetDDRD0 ==
    /\ pc = "L36"
    /\ mem' = StoreBit(mem, GPIOD, "DDR", 0, 1)
    /\ LogStore(RegAddr(GPIOD, "DDR"), mem'[RegAddr(GPIOD, "DDR")])
    /\ pc' = "L39"
    /\ UNCHANGED <<left, time, prior, op, rd>>

\* line 39: GPIOB->PORT.Reg = 0xAA;
PortHigh ==
    /\ pc = "L39"
    /\ mem' = StoreReg(mem, GPIOB, "PORT", HighValue)
    /\ LogStore(RegAddr(GPIOB, "PORT"), mem'[RegAddr(GPIOB, "PORT")])
    /\ pc' = "L40"
    /\ UNCHANGED <<left, time, prior, op, rd>>

\* line 41: GPIOB->PORT.Reg = 0x00;
PortLow ==
    /\ pc = "L41"
    /\ mem' = StoreReg(mem, GPIOB, "PORT", LowValue)
    /\ LogStore(RegAddr(GPIOB, "PORT"), mem'[RegAddr(GPIOB, "PORT")])
    /\ pc' = "L42"
    /\ UNCHANGED <<left, time, prior, op, rd>>

\* lines 40 and 42: _delay_ms(ms) is entered
DelayCall(at, ms) ==
    /\ pc = at
    /\ pc' = at \o "_wait"
    /\ left' = ms
    /\ UNCHANGED <<mem, time, prior, wlog, dropped, op, rd>>

\* one millisecond of the busy-wait
DelayTick ==
    /\ pc \in {"L40_wait", "L42_wait"}
    /\ left > 0
    /\ left' = left - 1
    /\ time' = IF time < MaxTime THEN time + 1 ELSE time
    /\ UNCHANGED <<mem, pc, prior, wlog, dropped, op, rd>>

\* _delay_ms returns; after line 42 the while(1) of line 37 goes round
DelayReturn(at, to) ==
    /\ pc = at \o "_wait"
    /\ left = 0
    /\ pc' = to
    /\ UNCHANGED <<mem, left, time, prior, wlog, dropped, op, rd>>

DelayHigh == DelayCall("L40", DelayHighMs)
DelayLow == DelayCall("L42", DelayLowMs)
ReturnHigh == DelayReturn("L40", "L41")
\* variant: main() falls out of the loop after one pass
ReturnLowExit == DelayReturn("L42", "L44")
\* variant: the loop goes back to the two direction stores
ReturnLowReinit == DelayReturn("L42", "L35")
ReturnLow == DelayReturn("L42", "L39")

Next ==
    \/ SetDDRB
    \/ SetDDRD0
    \/ PortHigh
    \/ DelayHigh
    \/ ReturnHigh
    \/ PortLow
    \/ DelayLow
    \/ ReturnLow
    \/ DelayTick

Spec == Init /\ [][Next]_vars

\* one thread on a processor that always executes its next instruction, and
\* a _delay_ms that counts down
FairSpec == Start(PriorSample, PriorFill) /\ [][Next]_vars /\ WF_vars(Next)

----------------------------------------------------------------------------
(* One access to one register of the overlay, on arbitrary contents *)

OverlayInit ==
    /\ \E p \in Ports, f \in Members, fill \in PriorFill :
         \/ \E c \in PriorSample, v \in Byte :
              /\ op = [kind |-> "Reg", port |-> p, f |-> f, i |-> 0, v |-> v]
              /\ mem = [a \in Addr |-> IF a = RegAddr(p, f) THEN c ELSE fill]
         \/ \E c \in Byte, i \in BitIndex, b \in 0..1 :
              /\ op = [kind |-> "Bit", port |-> p, f |-> f, i |-> i, v |-> b]
              /\ mem = [a \in Addr |-> IF a = RegAddr(p, f) THEN c ELSE fill]
    /\ prior = mem
    /\ pc = "access"
    /\ left = 0
    /\ time = 0
    /\ wlog = <<>>
    /\ dropped = FALSE
    /\ rd = [kind |-> "none"]

\* port->f.Reg = v;
AccessReg ==
    /\ pc = "access"
    /\ op.kind = "Reg"
    /\ mem' = StoreReg(mem, op.port, op.f, op.v)
    /\ pc' = "stored"
    /\ UNCHANGED <<left, time, prior, wlog, dropped, op, rd>>

\* port->f.Bit.PINi = b;
AccessBit ==
    /\ pc = "access"
    /\ op.kind = "Bit"
    /\ mem' = StoreBit(mem, op.port, op.f, op.i, op.v)
    /\ pc' = "stored"
    /\ UNCHANGED <<left, time, prior, wlog, dropped, op, rd>>

\* x = port->f.Reg; and y = port->f.Bit.PINi; for each i
ReadBack ==
    /\ pc = "stored"
    /\ rd' = [kind |-> "read",
              Reg |-> ReadReg(mem[RegAddr(op.port, op.f)]),
              Bit |-> [i \in BitIndex |-> ReadBit(mem[RegAddr(op.port, op.f)], i)]]
    /\ pc' = "read"
    /\ UNCHANGED <<mem, left, time, prior, wlog, dropped, op>>

OverlayNext ==
    \/ AccessReg
    \/ AccessBit
    \/ ReadBack

OverlaySpec == OverlayInit /\ [][OverlayNext]_vars

----------------------------------------------------------------------------
(* Properties.  Register addresses are written out: 0x23 = 35 GPIOB->PIN,  *)
(* 0x24 = 36 GPIOB->DDR, 0x25 = 37 GPIOB->PORT, 0x29 = 41 GPIOD->PIN,      *)
(* 0x2A = 42 GPIOD->DDR, 0x2B = 43 GPIOD->PORT; 0xAA = 170.                *)

\* sum of bits[i] * 2^i for i in 0..7
Weighted(bits) ==
    bits[0] + 2 * bits[1] + 4 * bits[2] + 8 * bits[3]
    + 16 * bits[4] + 32 * bits[5] + 64 * bits[6] + 128 * bits[7]

\* the values stored to GPIOB->PORT that the history remembers, oldest first
PortStores == SelectSeq(wlog, LAMBDA e : e[1] = 37)
\* GPIOB->PORT has been stored to at least once
PortWritten == dropped \/ \E k \in 1..Len(wlog) : wlog[k][1] = 37
\* the two states of the toggle loop
InHigh == PortWritten /\ pc \in {"L40", "L40_wait", "L41"} /\ mem[37] = 170
InLow == PortWritten /\ pc \in {"L42", "L42_wait", "L39"} /\ mem[37] = 0
\* the address the examined overlay access goes to
Target == RegAddr(op.port, op.f)

\* C1: the values stored to GPIOB->PORT are only 0xAA and 0x00, the first
\* store is 0xAA, and no two consecutive stores write the same value.
C1_Alternating ==
    LET ps == PortStores IN
    /\ \A k \in 1..Len(ps) : ps[k][2] \in {170, 0}
    /\ \A k \in 1..(Len(ps) - 1) : ps[k][2] # ps[k + 1][2]
    /\ (~dropped /\ Len(ps) > 0) => ps[1][2] = 170
    /\ Len(ps) > 0 => mem[37] = ps[Len(ps)][2]

C1_Witness ==
    LET ps == PortStores IN
    /\ dropped
    /\ Len(ps) >= 3
    /\ ps[Len(ps)][2] = 170
    /\ ps[Len(ps) - 1][2] = 0
    /\ ps[Len(ps) - 2][2] = 170

\* C2: when the loop is first entered, GPIOB->DDR is 0xAA (bits 1,3,5,7 set,
\* bits 0,2,4,6 clear) and GPIOD->DDR has bit 0 set and bits 1..7 as they were
\* before main() ran, whatever they were.
C2_AfterInit ==
    (pc = "L39" /\ ~PortWritten) =>
        /\ mem[36] = 170
        /\ \A i \in 0..7 : (mem[36] \div (2 ^ i)) % 2 = i % 2
        /\ mem[42] % 2 = 1
        /\ mem[42] \div 2 = prior[42] \div 2

C2_Witness ==
    /\ pc = "L39"
    /\ ~PortWritten
    /\ prior[42] = 254
    /\ mem[42] = 255
    /\ prior[36] = 0
    /\ mem[36] = 170

\* C3: a next step is always enabled and no line after the loop is reached;
\* once GPIOB->PORT has been stored to, the program is always in HIGH or in
\* LOW; and it is in HIGH infinitely often and in LOW infinitely often.
C3_NeverTerminates ==
    /\ [](ENABLED Next)
    /\ [](pc \in {"L35", "L36", "L39", "L40", "L40_wait", "L41", "L42", "L42_wait"})
    /\ [](PortWritten => (InHigh \/ InLow))
    /\ []<>InHigh
    /\ []<>InLow

C3_Witness ==
    /\ dropped
    /\ InLow
    /\ pc = "L39"

\* C4: while the clock still counts, in every state from a store to the last
\* millisecond of the wait that follows it, GPIOB->PORT is 0xAA when
\* time is in [0,1000), [2000,3000), ... and 0x00 when it is in [1000,2000),
\* ...; every wait ends exactly on a multiple of 1000 ms.
C4_Timing ==
    time < MaxTime =>
        /\ (pc \in {"L40", "L42"} \/ (pc \in {"L40_wait", "L42_wait"} /\ left > 0)) =>
              mem[37] = (IF (time \div 1000) % 2 = 0 THEN 170 ELSE 0)
        /\ pc = "L40_wait" => (time + left) % 2000 = 1000
        /\ pc = "L42_wait" => (time + left) % 2000 = 0
        /\ pc \in {"L40_wait", "L42_wait"} => left <= 1000
        /\ time = 0 /\ PortWritten => mem[37] = 170
        /\ time = 1500 => mem[37] = 0
        /\ time = 2500 => mem[37] = 170

C4_Witness ==
    /\ time = 2500
    /\ pc = "L40_wait"
    /\ left = 500
    /\ mem[37] = 170

\* C5: after a store of b to PINi through the bit-field view, bit i of the
\* register is b and each other bit is what it was, in memory and as read
\* back through the bit-field view.
C5_BitIsolation ==
    (op.kind = "Bit" /\ pc \in {"stored", "read"}) =>
        /\ \A j \in 0..7 :
              (mem[Target] \div (2 ^ j)) % 2 =
                 (IF j = op.i THEN op.v ELSE (prior[Target] \div (2 ^ j)) % 2)
        /\ pc = "read" =>
              \A j \in 0..7 :
                 rd.Bit[j] = (IF j = op.i THEN op.v
                              ELSE (prior[Target] \div (2 ^ j)) % 2)

C5_Witness ==
    /\ op.kind = "Bit"
    /\ pc = "read"
    /\ op.i = 3
    /\ op.v = 0
    /\ prior[Target] = 255
    /\ mem[Target] = 247

\* C6: after a store of v through the byte view, reading the byte view
\* returns v.
C6_RoundTrip ==
    (op.kind = "Reg" /\ pc = "read") => (rd.Reg = op.v /\ mem[Target] = op.v)

C6_Witness ==
    /\ op.kind = "Reg"
    /\ pc = "read"
    /\ op.v = 255
    /\ prior[Target] = 0
    /\ rd.Reg = 255

\* C7: every register's byte value is the sum of PINi * 2^i; after a byte
\* store of v each PINi reads as bit i of v; after a bit store to PINi the
\* byte value is the old one with the 2^i weight set or cleared.
C7_SameStorage ==
    /\ \A a \in RegAddrs :
          ReadReg(mem[a]) = Weighted([i \in 0..7 |-> ReadBit(mem[a], i)])
    /\ pc = "read" =>
          /\ rd.Reg = Weighted(rd.Bit)
          /\ op.kind = "Reg" => \A i \in 0..7 : rd.Bit[i] = (op.v \div (2 ^ i)) % 2
          /\ op.kind = "Bit" =>
                rd.Reg = prior[Target]
                         - ((prior[Target] \div (2 ^ op.i)) % 2) * (2 ^ op.i)
                         + op.v * (2 ^ op.i)

C7_Witness ==
    /\ pc = "read"
    /\ op.kind = "Bit"
    /\ op.i = 6
    /\ op.v = 1
    /\ prior[Target] = 1
    /\ rd.Reg = 65
    /\ rd.Bit[0] = 1
    /\ rd.Bit[6] = 1

\* C8: GPIOB's PIN, DDR, PORT are at 0x23, 0x24, 0x25 and GPIOD's at 0x29,
\* 0x2A, 0x2B; the two blocks share no address; a store to one register
\* leaves every other register of both ports as it was.
C8_Layout ==
    /\ RegAddr(GPIOB, "PIN") = 35 /\ RegAddr(GPIOB, "DDR") = 36
    /\ RegAddr(GPIOB, "PORT") = 37
    /\ RegAddr(GPIOD, "PIN") = 41 /\ RegAddr(GPIOD, "DDR") = 42
    /\ RegAddr(GPIOD, "PORT") = 43
    /\ {RegAddr(GPIOB, f) : f \in Members} \cap {RegAddr(GPIOD, f) : f \in Members} = {}
    /\ pc \in {"stored", "read"} =>
          \A p \in Ports, f \in Members :
             (<<p, f>> # <<op.port, op.f>>) => mem[RegAddr(p, f)] = prior[RegAddr(p, f)]

C8_Witness ==
    /\ pc = "stored"
    /\ op.port = GPIOB
    /\ op.f = "DDR"
    /\ op.kind = "Reg"
    /\ prior[36] = 0
    /\ mem[36] = 170
    /\ prior[42] = 255
    /\ mem[42] = 255
    /\ mem[35] = 255
    /\ mem[37] = 255

\* C9: GPIOB->DDR is stored to once, as the first store, GPIOD->DDR once, as
\* the second, both before any store to GPIOB->PORT; every later store goes
\* to GPIOB->PORT; after the two direction stores GPIOB->DDR stays 0xAA,
\* GPIOD->DDR stays as the second store left it, and GPIOD->PORT and both
\* PIN registers stay as they were before main() ran.
C9_InitOnce ==
    /\ \A k \in 1..Len(wlog) : wlog[k][1] \in {36, 42, 37}
    /\ \A j \in 1..Len(wlog) : \A k \in (j + 1)..Len(wlog) :
          /\ wlog[j][1] \in {37, 42} => wlog[k][1] = 37
          /\ wlog[j][1] = 36 => wlog[k][1] # 36
    /\ (~dropped /\ Len(wlog) >= 1) => wlog[1][1] = 36
    /\ (~dropped /\ Len(wlog) >= 2) => wlog[2][1] = 42
    /\ dropped => wlog[Len(wlog)][1] = 37
    /\ pc \notin {"L35", "L36"} =>
          /\ mem[36] = 170
          /\ mem[42] = 2 * (prior[42] \div 2) + 1
    /\ mem[35] = prior[35] /\ mem[41] = prior[41] /\ mem[43] = prior[43]

C9_Witness ==
    /\ dropped
    /\ pc = "L40_wait"
    /\ \A k \in 1..Len(wlog) : wlog[k][1] = 37
    /\ prior[36] = 255
    /\ mem[36] = 170
    /\ prior[42] = 90
    /\ mem[42] = 91

\* C10: once GPIOB->PORT has been stored to, it drives high only pins that
\* GPIOB->DDR marks as outputs; in HIGH it equals GPIOB->DDR (0xAA), in LOW
\* it is 0x00; its bits 0,2,4,6 are 0.
C10_OutputsOnly ==
    (PortWritten /\ pc \notin {"L35", "L36"}) =>
        /\ \A i \in 0..7 :
              (mem[37] \div (2 ^ i)) % 2 = 1 => (mem[36] \div (2 ^ i)) % 2 = 1
        /\ pc \in {"L40", "L40_wait", "L41"} => (mem[37] = mem[36] /\ mem[37] = 170)
        /\ pc \in {"L42", "L42_wait", "L39"} => mem[37] = 0
        /\ \A i \in {0, 2, 4, 6} : (mem[37] \div (2 ^ i)) % 2 = 0

C10_Witness ==
    /\ PortWritten
    /\ pc = "L41"
    /\ prior[37] = 255
    /\ mem[37] = 170
    /\ mem[36] = 170

====
